---- MODULE Spec2Model ----
(***************************************************************************)
(* The preprocessor's view of the two umbrella headers of BASIS,           *)
(* include/test.h and include/sbia/basis.h: the macro table of one         *)
(* translation unit, the position of the preprocessor inside the header    *)
(* being processed, and the diagnostics it has issued.  One action per     *)
(* directive of each header, plus the directives the including source file *)
(* can place around the #include lines.                                    *)
(***************************************************************************)
EXTENDS Integers, Sequences, FiniteSets, TLC

\* Bounds of the exploration.
MaxInt == 2        \* integer literals 0..MaxInt appear as macro bodies
MaxIncludes == 2   \* #include lines of the two headers in the source file
MaxEdits == 1      \* #define / #undef lines of the source file

\* Macro names.
HAVE_TR1_TUPLE == "HAVE_TR1_TUPLE"
HAVE_PTHREAD == "HAVE_PTHREAD"
GTEST_USE_OWN_TR1_TUPLE == "GTEST_USE_OWN_TR1_TUPLE"
GTEST_HAS_PTHREAD == "GTEST_HAS_PTHREAD"
SBIA_BASIS_TEST_H_ == "SBIA_BASIS_TEST_H_"
SBIA_BASIS_H_ == "SBIA_BASIS_H_"
SBIA_BASIS_CONFIG_H_ == "SBIA_BASIS_CONFIG_H_"

Inputs == {HAVE_TR1_TUPLE, HAVE_PTHREAD}
Outputs == {GTEST_USE_OWN_TR1_TUPLE, GTEST_HAS_PTHREAD}
Flags == Inputs \cup Outputs
Guards == {SBIA_BASIS_TEST_H_, SBIA_BASIS_H_, SBIA_BASIS_CONFIG_H_}
Names == Flags \cup Guards

\* Files.
TestH == "test.h"
BasisH == "basis.h"
MainFile == "main"

\* A macro is either not defined, or defined with a replacement text: the
\* empty text (#define X), or an integer literal.
Undefined == "<undefined>"
Empty == ""
IntTexts == {ToString(i) : i \in 0..MaxInt}
Bodies == {Empty} \cup IntTexts
InputTexts == {Undefined} \cup Bodies
OutputTexts == {Undefined} \cup IntTexts

VARIABLES
  macros,      \* macro table of the translation unit: Names -> text
  pc,          \* [file, line]: the directive the preprocessor is about to process
  once,        \* files whose #pragma once has been honoured
  pragmaOnce,  \* whether the toolchain honours #pragma once (else ignored)
  cfg,         \* what the generated config.h defines HAVE_* to (build configuration)
  diags,       \* diagnostics issued so far: [file, line, kind]
  events,      \* what the current pass over test.h has done so far, in order
  entry,       \* macro table when the header being processed was entered
  last,        \* <<[flags, resolved]>> of the previous pass over test.h: the four flags
               \* at its end and whether it went through lines 29-46; <<>> before it
  includes,    \* #include lines of the source file processed so far
  edits,       \* #define / #undef lines of the source file processed so far
  runA, runB,  \* two macro tables taken through the resolver side by side
  pcPair       \* line of the resolver the two tables are at

vars == <<macros, pc, once, pragmaOnce, cfg, diags, events, entry, last,
          includes, edits, runA, runB, pcPair>>
tuVars == <<macros, pc, once, pragmaOnce, cfg, diags, events, entry, last,
            includes, edits>>
pairVars == <<runA, runB, pcPair>>

(***************************************************************************)
(* Preprocessor semantics                                                  *)
(***************************************************************************)
Defined(m, n) == m[n] # Undefined

\* #define n v
Define(m, n, v) == [m EXCEPT ![n] = v]

\* #undef n
Undef(m, n) == [m EXCEPT ![n] = Undefined]

\* #define of a macro already defined with another body is diagnosed.
Redefinition(m, n, v) == Defined(m, n) /\ m[n] # v

\* variant: "#ifdef NAME" written for "#if NAME"
IfExpr_Ifdef(m, n) == IF Defined(m, n) THEN "true" ELSE "false"

\* The controlling expression "#if NAME": an identifier that is not a macro
\* is replaced by 0; a macro with an empty body leaves "#if" without an
\* expression, which is an error; otherwise the literal is compared with 0.
IfExpr(m, n) ==
  IF ~Defined(m, n) THEN "false"
  ELSE IF m[n] = Empty THEN "error"
  ELSE IF m[n] = "0" THEN "false"
  ELSE "true"

\* variant: the #ifdef / #undef / #endif lines left out
IfdefUndef_Missing(m, n) == m

\* #ifdef n / #undef n / #endif
IfdefUndef(m, n) == IF Defined(m, n) THEN Undef(m, n) ELSE m

\* variant: the #else branch also defines the tested flag as 0
IfDefineElse_NormalisesInput(m, cond, n, vTrue, vFalse) ==
  IF IfExpr(m, cond) = "true" THEN Define(m, n, vTrue)
  ELSE IF IfExpr(m, cond) = "false" THEN Define(Define(m, n, vFalse), cond, "0")
  ELSE m

\* #if cond / #define n vTrue / #else / #define n vFalse / #endif
IfDefineElse(m, cond, n, vTrue, vFalse) ==
  IF IfExpr(m, cond) = "true" THEN Define(m, n, vTrue)
  ELSE IF IfExpr(m, cond) = "false" THEN Define(m, n, vFalse)
  ELSE m

Diag(file, line, kind) == [file |-> file, line |-> line, kind |-> kind]

\* diagnostics of "#if cond / #define n vTrue / #else / #define n vFalse"
IfDefineElseDiags(m, file, line, cond, n, vTrue, vFalse) ==
  IF IfExpr(m, cond) = "error" THEN {Diag(file, line, "error")}
  ELSE IF IfExpr(m, cond) = "true" /\ Redefinition(m, n, vTrue)
       THEN {Diag(file, line + 1, "warning")}
  ELSE IF IfExpr(m, cond) = "false" /\ Redefinition(m, n, vFalse)
       THEN {Diag(file, line + 3, "warning")}
  ELSE {}

Halted == \E d \in diags : d.kind = "error"

At(file, line) == ~Halted /\ pc = [file |-> file, line |-> line]
Goto(file, line) == pc' = [file |-> file, line |-> line]
Idle == At(MainFile, 0)

FlagsOf(m) == [n \in Flags |-> m[n]]

\* the macro table with nothing defined
NoMacros == [n \in Names |-> Undefined]

(***************************************************************************)
(* sbia/basis/config.h, generated by the build configuration; included by  *)
(* both headers.                                                           *)
(***************************************************************************)
ConfigH(m) ==
  IF Defined(m, SBIA_BASIS_CONFIG_H_) THEN m
  ELSE [n \in Names |->
          IF n = SBIA_BASIS_CONFIG_H_ THEN Empty
          ELSE IF n \in Inputs /\ cfg[n] # Undefined THEN cfg[n]
          ELSE m[n]]

ConfigHDiags(m, file, line) ==
  IF Defined(m, SBIA_BASIS_CONFIG_H_) THEN {}
  ELSE IF \E n \in Inputs : cfg[n] # Undefined /\ Redefinition(m, n, cfg[n])
       THEN {Diag(file, line, "warning")}
  ELSE {}

(***************************************************************************)
(* The source file of the translation unit                                 *)
(***************************************************************************)
\* #include of test.h
IncludeTestH ==
  /\ Idle
  /\ includes < MaxIncludes
  /\ includes' = includes + 1
  /\ entry' = macros
  /\ events' = <<>>
  /\ Goto(TestH, 20)
  /\ UNCHANGED <<macros, once, pragmaOnce, cfg, diags, last, edits>>
  /\ UNCHANGED pairVars

\* #include of basis.h
IncludeBasisH ==
  /\ Idle
  /\ includes < MaxIncludes
  /\ includes' = includes + 1
  /\ entry' = macros
  /\ events' = <<>>
  /\ Goto(BasisH, 14)
  /\ UNCHANGED <<macros, once, pragmaOnce, cfg, diags, last, edits>>
  /\ UNCHANGED pairVars

\* #undef n followed by #define n v, or #undef n alone, in the source file
\* after an inclusion of test.h (what is defined before the first one is
\* chosen in Init)
UserDefine ==
  /\ Idle
  /\ edits < MaxEdits
  /\ last # <<>>
  /\ edits' = edits + 1
  /\ \E n \in Flags :
       \E v \in (IF n \in Inputs THEN InputTexts ELSE OutputTexts) :
         macros' = IF v = Undefined THEN Undef(macros, n)
                   ELSE Define(Undef(macros, n), n, v)
  /\ UNCHANGED <<pc, once, pragmaOnce, cfg, diags, events, entry, last, includes>>
  /\ UNCHANGED pairVars

\* #undef SBIA_BASIS_TEST_H_ in the source file, after an inclusion of test.h
UserUndefGuard ==
  /\ Idle
  /\ edits < MaxEdits
  /\ last # <<>>
  /\ edits' = edits + 1
  /\ macros' = Undef(macros, SBIA_BASIS_TEST_H_)
  /\ UNCHANGED <<pc, once, pragmaOnce, cfg, diags, events, entry, last, includes>>
  /\ UNCHANGED pairVars

(***************************************************************************)
(* include/test.h                                                          *)
(***************************************************************************)
\* the end of a header: back to the source file that included it
Return ==
  /\ Goto(MainFile, 0)
  /\ entry' = NoMacros
  /\ events' = <<>>

\* line 20: #pragma once
T20_PragmaOnce ==
  /\ At(TestH, 20)
  /\ IF pragmaOnce /\ TestH \in once
       THEN Goto(TestH, 53) /\ UNCHANGED once
       ELSE /\ once' = IF pragmaOnce THEN once \cup {TestH} ELSE once
            /\ Goto(TestH, 21)
  /\ UNCHANGED <<macros, pragmaOnce, cfg, diags, events, entry, last, includes, edits>>
  /\ UNCHANGED pairVars

\* variant: test.h without its include guard test
T21_NoGuard ==
  /\ At(TestH, 21)
  /\ Goto(TestH, 22)
  /\ UNCHANGED <<macros, once, pragmaOnce, cfg, diags, events, entry, last,
                 includes, edits>>
  /\ UNCHANGED pairVars

\* line 21: #ifndef SBIA_BASIS_TEST_H_ (closed by #endif on line 52)
T21_Ifndef ==
  /\ At(TestH, 21)
  /\ IF Defined(macros, SBIA_BASIS_TEST_H_) THEN Goto(TestH, 52) ELSE Goto(TestH, 22)
  /\ UNCHANGED <<macros, once, pragmaOnce, cfg, diags, events, entry, last,
                 includes, edits>>
  /\ UNCHANGED pairVars

\* line 22: #define SBIA_BASIS_TEST_H_
T22_DefineGuard ==
  /\ At(TestH, 22)
  /\ macros' = Define(macros, SBIA_BASIS_TEST_H_, Empty)
  /\ Goto(TestH, 25)
  /\ UNCHANGED <<once, pragmaOnce, cfg, diags, events, entry, last, includes, edits>>
  /\ UNCHANGED pairVars

\* variant: test.h without its include of config.h
T25_NoConfig ==
  /\ At(TestH, 25)
  /\ Goto(TestH, 29)
  /\ UNCHANGED <<macros, once, pragmaOnce, cfg, diags, events, entry, last,
                 includes, edits>>
  /\ UNCHANGED pairVars

\* line 25: #include <sbia/basis/config.h>
T25_IncludeConfig ==
  /\ At(TestH, 25)
  /\ macros' = ConfigH(macros)
  /\ diags' = diags \cup ConfigHDiags(macros, TestH, 25)
  /\ events' = Append(events, "config.h")
  /\ Goto(TestH, 29)
  /\ UNCHANGED <<once, pragmaOnce, cfg, entry, last, includes, edits>>
  /\ UNCHANGED pairVars

\* variant: "#ifndef GTEST_USE_OWN_TR1_TUPLE" around lines 32-36, so that a
\* definition made earlier is kept
T29_KeepExisting ==
  /\ At(TestH, 29)
  /\ IF Defined(macros, GTEST_USE_OWN_TR1_TUPLE)
       THEN Goto(TestH, 39) /\ events' = Append(events, GTEST_USE_OWN_TR1_TUPLE)
       ELSE Goto(TestH, 32) /\ UNCHANGED events
  /\ UNCHANGED <<macros, once, pragmaOnce, cfg, diags, entry, last, includes, edits>>
  /\ UNCHANGED pairVars

\* lines 29-31: #ifdef GTEST_USE_OWN_TR1_TUPLE / #undef / #endif
T29_UndefTuple ==
  /\ At(TestH, 29)
  /\ macros' = IfdefUndef(macros, GTEST_USE_OWN_TR1_TUPLE)
  /\ Goto(TestH, 32)
  /\ UNCHANGED <<once, pragmaOnce, cfg, diags, events, entry, last, includes, edits>>
  /\ UNCHANGED pairVars

\* variant: the two #define lines exchanged
ResolveTuple_Swapped(m) ==
  IfDefineElse(m, HAVE_TR1_TUPLE, GTEST_USE_OWN_TR1_TUPLE, "1", "0")

\* lines 32-36: #if HAVE_TR1_TUPLE / #define ... 0 / #else / #define ... 1 / #endif
ResolveTuple(m) == IfDefineElse(m, HAVE_TR1_TUPLE, GTEST_USE_OWN_TR1_TUPLE, "0", "1")

T32_ResolveTuple ==
  /\ At(TestH, 32)
  /\ macros' = ResolveTuple(macros)
  /\ diags' = diags \cup IfDefineElseDiags(macros, TestH, 32, HAVE_TR1_TUPLE,
                                           GTEST_USE_OWN_TR1_TUPLE, "0", "1")
  /\ events' = IF IfExpr(macros, HAVE_TR1_TUPLE) = "error" THEN events
               ELSE Append(events, GTEST_USE_OWN_TR1_TUPLE)
  /\ IF IfExpr(macros, HAVE_TR1_TUPLE) = "error" THEN UNCHANGED pc ELSE Goto(TestH, 39)
  /\ UNCHANGED <<once, pragmaOnce, cfg, entry, last, includes, edits>>
  /\ UNCHANGED pairVars

\* lines 39-41: #ifdef GTEST_HAS_PTHREAD / #undef / #endif
T39_UndefPthread ==
  /\ At(TestH, 39)
  /\ macros' = IfdefUndef(macros, GTEST_HAS_PTHREAD)
  /\ Goto(TestH, 42)
  /\ UNCHANGED <<once, pragmaOnce, cfg, diags, events, entry, last, includes, edits>>
  /\ UNCHANGED pairVars

\* variant: HAVE_PTHREAD undefined once it has been used
ResolvePthread_Consuming(m) ==
  Undef(IfDefineElse(m, HAVE_PTHREAD, GTEST_HAS_PTHREAD, "1", "0"), HAVE_PTHREAD)

\* variant: "#define GTEST_HAS_PTHREAD HAVE_PTHREAD" in the #if branch
ResolvePthread_CopyInput(m) ==
  IfDefineElse(m, HAVE_PTHREAD, GTEST_HAS_PTHREAD, m[HAVE_PTHREAD], "0")

\* variant: "#if HAVE_TR1_TUPLE" copied from line 32
ResolvePthread_WrongInput(m) ==
  IfDefineElse(m, HAVE_TR1_TUPLE, GTEST_HAS_PTHREAD, "1", "0")

\* lines 42-46: #if HAVE_PTHREAD / #define ... 1 / #else / #define ... 0 / #endif
ResolvePthread(m) == IfDefineElse(m, HAVE_PTHREAD, GTEST_HAS_PTHREAD, "1", "0")

T42_ResolvePthread ==
  /\ At(TestH, 42)
  /\ macros' = ResolvePthread(macros)
  /\ diags' = diags \cup IfDefineElseDiags(macros, TestH, 42, HAVE_PTHREAD,
                                           GTEST_HAS_PTHREAD, "1", "0")
  /\ events' = IF IfExpr(macros, HAVE_PTHREAD) = "error" THEN events
               ELSE Append(events, GTEST_HAS_PTHREAD)
  /\ IF IfExpr(macros, HAVE_PTHREAD) = "error" THEN UNCHANGED pc ELSE Goto(TestH, 48)
  /\ UNCHANGED <<once, pragmaOnce, cfg, entry, last, includes, edits>>
  /\ UNCHANGED pairVars

\* line 48: #include <sbia/basis/gtest/gtest.h>
T48_IncludeGtest ==
  /\ At(TestH, 48)
  /\ events' = Append(events, "gtest.h")
  /\ Goto(TestH, 49)
  /\ UNCHANGED <<macros, once, pragmaOnce, cfg, diags, entry, last, includes, edits>>
  /\ UNCHANGED pairVars

\* line 49: #include <sbia/basis/gmock/gmock.h>
T49_IncludeGmock ==
  /\ At(TestH, 49)
  /\ events' = Append(events, "gmock.h")
  /\ Goto(TestH, 52)
  /\ UNCHANGED <<macros, once, pragmaOnce, cfg, diags, entry, last, includes, edits>>
  /\ UNCHANGED pairVars

\* line 52: #endif // SBIA_BASIS_TEST_H_
T52_Endif ==
  /\ At(TestH, 52)
  /\ Goto(TestH, 53)
  /\ UNCHANGED <<macros, once, pragmaOnce, cfg, diags, events, entry, last,
                 includes, edits>>
  /\ UNCHANGED pairVars

\* the end of test.h, also reached from line 20 when the file is skipped
T53_EndOfFile ==
  /\ At(TestH, 53)
  /\ last' = <<[flags |-> FlagsOf(macros), resolved |-> Len(events) >= 3]>>
  /\ Return
  /\ UNCHANGED <<macros, once, pragmaOnce, cfg, diags, includes, edits>>
  /\ UNCHANGED pairVars

(***************************************************************************)
(* include/sbia/basis.h                                                    *)
(***************************************************************************)
\* line 14: #pragma once
B14_PragmaOnce ==
  /\ At(BasisH, 14)
  /\ IF pragmaOnce /\ BasisH \in once
       THEN Goto(BasisH, 27) /\ UNCHANGED once
       ELSE /\ once' = IF pragmaOnce THEN once \cup {BasisH} ELSE once
            /\ Goto(BasisH, 15)
  /\ UNCHANGED <<macros, pragmaOnce, cfg, diags, events, entry, last, includes, edits>>
  /\ UNCHANGED pairVars

\* line 15: #ifndef SBIA_BASIS_H_ (closed by #endif on line 26)
B15_Ifndef ==
  /\ At(BasisH, 15)
  /\ IF Defined(macros, SBIA_BASIS_H_) THEN Goto(BasisH, 26) ELSE Goto(BasisH, 16)
  /\ UNCHANGED <<macros, once, pragmaOnce, cfg, diags, events, entry, last,
                 includes, edits>>
  /\ UNCHANGED pairVars

\* line 16: #define SBIA_BASIS_H_
B16_DefineGuard ==
  /\ At(BasisH, 16)
  /\ macros' = Define(macros, SBIA_BASIS_H_, Empty)
  /\ Goto(BasisH, 19)
  /\ UNCHANGED <<once, pragmaOnce, cfg, diags, events, entry, last, includes, edits>>
  /\ UNCHANGED pairVars

\* line 19: #include "tclap/CmdLine.h"
B19_IncludeTclap ==
  /\ At(BasisH, 19)
  /\ Goto(BasisH, 21)
  /\ UNCHANGED <<macros, once, pragmaOnce, cfg, diags, events, entry, last,
                 includes, edits>>
  /\ UNCHANGED pairVars

\* line 21: #include "basis/config.h"
B21_IncludeConfig ==
  /\ At(BasisH, 21)
  /\ macros' = ConfigH(macros)
  /\ diags' = diags \cup ConfigHDiags(macros, BasisH, 21)
  /\ Goto(BasisH, 22)
  /\ UNCHANGED <<once, pragmaOnce, cfg, events, entry, last, includes, edits>>
  /\ UNCHANGED pairVars

\* line 22: #include "basis/path.h"
B22_IncludePath ==
  /\ At(BasisH, 22)
  /\ Goto(BasisH, 26)
  /\ UNCHANGED <<macros, once, pragmaOnce, cfg, diags, events, entry, last,
                 includes, edits>>
  /\ UNCHANGED pairVars

\* line 26: #endif // SBIA_BASIS_H_
B26_Endif ==
  /\ At(BasisH, 26)
  /\ Goto(BasisH, 27)
  /\ UNCHANGED <<macros, once, pragmaOnce, cfg, diags, events, entry, last,
                 includes, edits>>
  /\ UNCHANGED pairVars

\* the end of basis.h, also reached from line 14 when the file is skipped
B27_EndOfFile ==
  /\ At(BasisH, 27)
  /\ Return
  /\ UNCHANGED <<macros, once, pragmaOnce, cfg, diags, last, includes, edits>>
  /\ UNCHANGED pairVars

(***************************************************************************)
(* The translation unit                                                    *)
(***************************************************************************)
\* Before the first line of the source file no macro of the build
\* configuration is defined yet (config.h defines them); the output flags
\* may have been given any value on the command line.

PairOff == "off"

Init ==
  /\ \E t \in OutputTexts, p \in OutputTexts :
       macros = [NoMacros EXCEPT ![GTEST_USE_OWN_TR1_TUPLE] = t,
                                 ![GTEST_HAS_PTHREAD] = p]
  /\ pc = [file |-> MainFile, line |-> 0]
  /\ once = {}
  /\ pragmaOnce \in BOOLEAN
  /\ cfg \in [Inputs -> InputTexts]
  /\ diags = {}
  /\ events = <<>>
  /\ entry = NoMacros
  /\ last = <<>>
  /\ includes = 0
  /\ edits = 0
  /\ runA = [m |-> NoMacros, err |-> 0]
  /\ runB = [m |-> NoMacros, err |-> 0]
  /\ pcPair = PairOff

Next ==
  \/ IncludeTestH
  \/ IncludeBasisH
  \/ UserDefine
  \/ UserUndefGuard
  \/ T20_PragmaOnce
  \/ T21_Ifndef
  \/ T22_DefineGuard
  \/ T25_IncludeConfig
  \/ T29_UndefTuple
  \/ T32_ResolveTuple
  \/ T39_UndefPthread
  \/ T42_ResolvePthread
  \/ T48_IncludeGtest
  \/ T49_IncludeGmock
  \/ T52_Endif
  \/ T53_EndOfFile
  \/ B14_PragmaOnce
  \/ B15_Ifndef
  \/ B16_DefineGuard
  \/ B19_IncludeTclap
  \/ B21_IncludeConfig
  \/ B22_IncludePath
  \/ B26_Endif
  \/ B27_EndOfFile

Spec == Init /\ [][Next]_vars

TypeOK ==
  /\ macros \in [Names -> InputTexts]
  /\ \A n \in Outputs : macros[n] \in OutputTexts
  /\ Len(last) <= 1

(***************************************************************************)
(* The resolver (test.h lines 29-46) applied to two macro tables side by   *)
(* side, to compare two translation units.                                 *)
(***************************************************************************)
\* a run: the macro table and the line of the failed #if (0: none)
Run(m) == [m |-> m, err |-> 0]

ResolverStep(r, line) ==
  IF r.err # 0 THEN r
  ELSE IF line = 29 THEN [r EXCEPT !.m = IfdefUndef(r.m, GTEST_USE_OWN_TR1_TUPLE)]
  ELSE IF line = 32 THEN
         [m |-> ResolveTuple(r.m),
          err |-> IF IfExpr(r.m, HAVE_TR1_TUPLE) = "error" THEN 32 ELSE 0]
  ELSE IF line = 39 THEN [r EXCEPT !.m = IfdefUndef(r.m, GTEST_HAS_PTHREAD)]
  ELSE [m |-> ResolvePthread(r.m),
        err |-> IF IfExpr(r.m, HAVE_PTHREAD) = "error" THEN 42 ELSE 0]

FlagTables ==
  {[n \in Names |-> IF n \in Flags THEN f[n] ELSE Undefined] :
     f \in {g \in [Flags -> InputTexts] : \A n \in Outputs : g[n] \in OutputTexts}}

InitPair ==
  /\ macros = NoMacros
  /\ pc = [file |-> MainFile, line |-> 0]
  /\ once = {}
  /\ pragmaOnce = FALSE
  /\ cfg = [n \in Inputs |-> Undefined]
  /\ diags = {}
  /\ events = <<>>
  /\ entry = NoMacros
  /\ last = <<>>
  /\ includes = 0
  /\ edits = 0
  /\ \E a \in FlagTables, b \in FlagTables : runA = Run(a) /\ runB = Run(b)
  /\ pcPair = 29

PairStep(line, next) ==
  /\ pcPair = line
  /\ runA' = ResolverStep(runA, line)
  /\ runB' = ResolverStep(runB, line)
  /\ pcPair' = next
  /\ UNCHANGED tuVars

P29_UndefTuple == PairStep(29, 32)
P32_ResolveTuple == PairStep(32, 39)
P39_UndefPthread == PairStep(39, 42)
P42_ResolvePthread == PairStep(42, 48)

NextPair ==
  \/ P29_UndefTuple
  \/ P32_ResolveTuple
  \/ P39_UndefPthread
  \/ P42_ResolvePthread

SpecPair == InitPair /\ [][NextPair]_vars

(***************************************************************************)
(* Properties                                                              *)
(***************************************************************************)
IsPrefix(s, t) == Len(s) <= Len(t) /\ \A i \in 1..Len(s) : s[i] = t[i]

\* the current pass over test.h has gone through lines 29-46
PostResolver ==
  /\ pc.file = TestH
  /\ pc.line \in {48, 49, 52, 53}
  /\ Len(events) >= 3

InTestH(lines) == pc.file = TestH /\ pc.line \in lines

\* what a full pass over test.h does, in order
Order == <<"config.h", GTEST_USE_OWN_TR1_TUPLE, GTEST_HAS_PTHREAD, "gtest.h", "gmock.h">>

\* C1: after the first pass over test.h in a translation unit, with
\* HAVE_TR1_TUPLE and HAVE_PTHREAD each 1 (true) or 0 (false),
\* GTEST_USE_OWN_TR1_TUPLE is the negation of HAVE_TR1_TUPLE and
\* GTEST_HAS_PTHREAD equals HAVE_PTHREAD.
C1_Table ==
  (PostResolver /\ last = <<>>) =>
     /\ macros[HAVE_TR1_TUPLE] = "1" => macros[GTEST_USE_OWN_TR1_TUPLE] = "0"
     /\ macros[HAVE_TR1_TUPLE] = "0" => macros[GTEST_USE_OWN_TR1_TUPLE] = "1"
     /\ macros[HAVE_PTHREAD] = "1" => macros[GTEST_HAS_PTHREAD] = "1"
     /\ macros[HAVE_PTHREAD] = "0" => macros[GTEST_HAS_PTHREAD] = "0"

C1_Witness ==
  /\ PostResolver /\ last = <<>>
  /\ macros[HAVE_TR1_TUPLE] = "0" /\ macros[HAVE_PTHREAD] = "1"
  /\ macros[GTEST_USE_OWN_TR1_TUPLE] = "1" /\ macros[GTEST_HAS_PTHREAD] = "1"

\* the value the inputs dictate for an output flag
Dictated(m, out) ==
  IF out = GTEST_USE_OWN_TR1_TUPLE
    THEN (IF m[HAVE_TR1_TUPLE] \in {Undefined, "0"} THEN "1" ELSE "0")
    ELSE (IF m[HAVE_PTHREAD] \in {Undefined, "0"} THEN "0" ELSE "1")

\* C2: an output flag that was defined, to whatever value, when test.h was
\* entered holds after the resolver the value the inputs dictate, not the
\* value it had.
C2_Override ==
  PostResolver =>
    \A out \in Outputs :
      Defined(entry, out) => macros[out] = Dictated(macros, out)

C2_Witness ==
  /\ PostResolver
  /\ entry[GTEST_USE_OWN_TR1_TUPLE] = "2"
  /\ entry[GTEST_HAS_PTHREAD] = "1"
  /\ macros[GTEST_USE_OWN_TR1_TUPLE] = "0"
  /\ macros[GTEST_HAS_PTHREAD] = "0"

\* C3: a translation unit in which an input flag is undefined gets the same
\* two outputs as one in which that flag is 0 and the other input is the
\* same: GTEST_USE_OWN_TR1_TUPLE = 1 for HAVE_TR1_TUPLE, GTEST_HAS_PTHREAD = 0
\* for HAVE_PTHREAD.
C3_AbsenceAsFalse ==
  pcPair = 48 =>
    /\ ( /\ runA.m[HAVE_TR1_TUPLE] = Undefined /\ runB.m[HAVE_TR1_TUPLE] = "0"
         /\ runA.m[HAVE_PTHREAD] = runB.m[HAVE_PTHREAD]
         /\ runA.m[HAVE_PTHREAD] # Empty )
       => /\ runA.err = 0 /\ runB.err = 0
          /\ \A out \in Outputs : runA.m[out] = runB.m[out]
          /\ runA.m[GTEST_USE_OWN_TR1_TUPLE] = "1"
    /\ ( /\ runA.m[HAVE_PTHREAD] = Undefined /\ runB.m[HAVE_PTHREAD] = "0"
         /\ runA.m[HAVE_TR1_TUPLE] = runB.m[HAVE_TR1_TUPLE]
         /\ runA.m[HAVE_TR1_TUPLE] # Empty )
       => /\ runA.err = 0 /\ runB.err = 0
          /\ \A out \in Outputs : runA.m[out] = runB.m[out]
          /\ runA.m[GTEST_HAS_PTHREAD] = "0"

C3_Witness ==
  /\ pcPair = 48
  /\ runA.m[HAVE_TR1_TUPLE] = Undefined /\ runB.m[HAVE_TR1_TUPLE] = "0"
  /\ runA.m[HAVE_PTHREAD] = "1" /\ runB.m[HAVE_PTHREAD] = "1"
  /\ runA.m[GTEST_USE_OWN_TR1_TUPLE] = "1" /\ runB.m[GTEST_USE_OWN_TR1_TUPLE] = "1"

\* C4: a pass over test.h that starts with the four flags as a previous pass
\* through the resolver left them ends with the outputs as that pass left
\* them, whether the include guard skips it or (the guard removed) the
\* resolver runs again.
C4_Idempotent ==
  (InTestH({53}) /\ last # <<>> /\ last[1].resolved /\ FlagsOf(entry) = last[1].flags) =>
     \A out \in Outputs : macros[out] = last[1].flags[out]

\* the second pass ran the resolver again (its guard had been removed)
C4_Witness ==
  /\ InTestH({53}) /\ last # <<>> /\ last[1].resolved /\ FlagsOf(entry) = last[1].flags
  /\ events = Order
  /\ macros[HAVE_TR1_TUPLE] = "2"
  /\ macros[GTEST_USE_OWN_TR1_TUPLE] = "0"

\* C5: after the resolver each output flag is defined as the literal 0 or
\* the literal 1.
C5_ZeroOrOne ==
  PostResolver => \A out \in Outputs : macros[out] \in {"0", "1"}

C5_Witness ==
  /\ PostResolver
  /\ macros[HAVE_TR1_TUPLE] = "2" /\ macros[HAVE_PTHREAD] = "2"
  /\ entry[GTEST_HAS_PTHREAD] = "2"
  /\ macros[GTEST_USE_OWN_TR1_TUPLE] = "0" /\ macros[GTEST_HAS_PTHREAD] = "1"

\* C6: a pass over test.h processes config.h, then resolves
\* GTEST_USE_OWN_TR1_TUPLE, then GTEST_HAS_PTHREAD, then processes gtest.h,
\* then gmock.h; test.h changes an output flag only after config.h and before
\* gtest.h.
C6_Ordering ==
  /\ [](IsPrefix(events, Order))
  /\ [][ (pc.file = TestH /\ \E out \in Outputs : macros'[out] # macros[out])
           => (Len(events) >= 1 /\ Len(events) <= 2 /\ Len(events') <= 3) ]_vars

C6_Witness ==
  /\ pc = [file |-> TestH, line |-> 52]
  /\ events = Order

\* the input flag tested by the #if on a line of the resolver
CondOf(line) == IF line < 39 THEN HAVE_TR1_TUPLE ELSE HAVE_PTHREAD

\* C7: the resolver (test.h lines 29-46) issues no warning, fails only on
\* an input flag that is defined with an empty body (neither true, false
\* nor undefined), and leaves both output flags defined.
C7_CannotFail ==
  /\ \A d \in diags :
       (d.file = TestH /\ d.line \in 29..46) =>
          (d.kind = "error" /\ macros[CondOf(d.line)] = Empty)
  /\ InTestH({32, 39, 42}) =>
       (macros[CondOf(pc.line)] # Empty => ~Halted)
  /\ InTestH({48}) => \A out \in Outputs : Defined(macros, out)

\* an undefined input, and outputs that were defined to the other values
C7_Witness ==
  /\ PostResolver
  /\ macros[HAVE_TR1_TUPLE] = Undefined /\ macros[HAVE_PTHREAD] = "1"
  /\ entry[GTEST_USE_OWN_TR1_TUPLE] = "0" /\ entry[GTEST_HAS_PTHREAD] = "0"
  /\ diags = {}

\* C8: two translation units that agree on HAVE_TR1_TUPLE get the same
\* GTEST_USE_OWN_TR1_TUPLE, and two that agree on HAVE_PTHREAD get the same
\* GTEST_HAS_PTHREAD, whatever the other input and the prior outputs are
\* (as far as the resolver got through its #if lines).
C8_Independent ==
  pcPair = 48 =>
    /\ ( /\ runA.m[HAVE_TR1_TUPLE] = runB.m[HAVE_TR1_TUPLE]
         /\ runA.err # 32 /\ runB.err # 32 )
       => runA.m[GTEST_USE_OWN_TR1_TUPLE] = runB.m[GTEST_USE_OWN_TR1_TUPLE]
    /\ ( /\ runA.m[HAVE_PTHREAD] = runB.m[HAVE_PTHREAD]
         /\ runA.err = 0 /\ runB.err = 0 )
       => runA.m[GTEST_HAS_PTHREAD] = runB.m[GTEST_HAS_PTHREAD]

C8_Witness ==
  /\ pcPair = 48
  /\ runA.m[HAVE_PTHREAD] = "1" /\ runB.m[HAVE_PTHREAD] = "1"
  /\ runA.m[HAVE_TR1_TUPLE] = "1" /\ runB.m[HAVE_TR1_TUPLE] = Undefined
  /\ runA.m[GTEST_USE_OWN_TR1_TUPLE] = "0" /\ runB.m[GTEST_USE_OWN_TR1_TUPLE] = "1"
  /\ runA.m[GTEST_HAS_PTHREAD] = "1" /\ runB.m[GTEST_HAS_PTHREAD] = "1"

\* macro names whose definition a step changes
Changed == {n \in Names : macros'[n] # macros[n]}

\* the directives of the two headers themselves, without the nested includes
OwnDirective ==
  \/ pc.file = TestH /\ pc.line # 25
  \/ pc.file = BasisH /\ pc.line # 21

\* C9 as claimed: the resolver never changes an input flag, a pass over
\* basis.h changes none of the four flags, and the headers themselves change
\* only the two outputs and their own include guards.
C9_Frame_Claimed ==
  [][ /\ InTestH(29..46) => Changed \cap Inputs = {}
      /\ pc.file = BasisH => Changed \cap Flags = {}
      /\ OwnDirective => Changed \subseteq Outputs \cup {SBIA_BASIS_TEST_H_, SBIA_BASIS_H_}
    ]_vars

\* C9 amended: the resolver never changes an input flag, a pass over basis.h
\* never changes an output flag and changes an input flag only on line 21,
\* its include of basis/config.h, and the headers themselves change only the
\* two outputs and their own include guards.
C9_Frame ==
  [][ /\ InTestH(29..46) => Changed \cap Inputs = {}
      /\ pc.file = BasisH => Changed \cap Outputs = {}
      /\ (pc.file = BasisH /\ pc.line # 21) => Changed \cap Inputs = {}
      /\ OwnDirective => Changed \subseteq Outputs \cup {SBIA_BASIS_TEST_H_, SBIA_BASIS_H_}
    ]_vars

\* basis.h has passed line 21 and an input flag is no longer what it was
C9_Witness ==
  /\ pc = [file |-> BasisH, line |-> 26]
  /\ entry[HAVE_PTHREAD] = Undefined /\ macros[HAVE_PTHREAD] = "1"
  /\ macros[SBIA_BASIS_H_] = Empty
  /\ \A out \in Outputs : macros[out] = entry[out]

\* C10: a pass over test.h that starts with SBIA_BASIS_TEST_H_ defined
\* changes no macro and does not run the resolver.
C10_OncePerUnit ==
  (pc.file = TestH /\ Defined(entry, SBIA_BASIS_TEST_H_)) =>
     (macros = entry /\ events = <<>>)

\* an output flag redefined between the two inclusions is not restored
C10_Witness ==
  /\ pc = [file |-> TestH, line |-> 52]
  /\ Defined(entry, SBIA_BASIS_TEST_H_)
  /\ last # <<>>
  /\ macros[HAVE_TR1_TUPLE] = "1"
  /\ macros[GTEST_USE_OWN_TR1_TUPLE] = "2"

====
